---- MODULE Spec2Model ----
(***************************************************************************)
(* Trace correlation in tordynnar/observability: the one-shot trace-id     *)
(* override of SettableIdGenerator (telemetry.py, echo_client.py), the     *)
(* per-service telemetry factory (telemetry.py) and the echo client's      *)
(* do_echo / main (echo_client.py).                                         *)
(***************************************************************************)
EXTENDS Integers, Sequences, FiniteSets, TLC

\* ------------------------------------------------------------------------
\* Bounds of the model
\* ------------------------------------------------------------------------
\* trace identifiers handed to set_next_trace_id / drawn by getrandbits(128)
MaxId == 2
\* span identifiers drawn by getrandbits(64)
MaxSpanId == 1
\* length of a recorded sequential run of generator calls
MaxCalls == 4
\* create_service_telemetry / setup_telemetry calls made by one process
MaxIdentities == 2
MaxSetups == 1
\* messages of one streaming exchange
MaxMessages == 4

\* width of uuid.UUID.hex ('%032x' % self.int)
HexWidth == 32

\* Python's None, and a value v held in an Optional
None == <<>>
Some(v) == <<v>>

TraceInts == 0..MaxId
SpanInts == 0..MaxSpanId

\* uuid.UUID: the 128-bit integer it wraps
UUID(n) == [int |-> n]
UUIDs == {UUID(n) : n \in TraceInts}

\* ------------------------------------------------------------------------
\* State
\* ------------------------------------------------------------------------
VARIABLES
  next_trace_id,   \* generator instance -> SettableIdGenerator._next_trace_id
  last,            \* the most recent generator call and what it returned
  log,             \* history: the calls of one sequential run, in order
  identities,      \* the ServiceTelemetry values returned by create_service_telemetry
  setups,          \* the generators returned by setup_telemetry
  loggers,         \* logging's registry: logger name -> level and handlers
  tracer_provider, \* opentelemetry.trace's global tracer provider
  logger_provider, \* opentelemetry._logs' global logger provider
  textmap,         \* opentelemetry.propagate's global propagator
  instrumented,    \* which gRPC instrumentors are active
  t_pc,            \* thread -> the line of generate_trace_id it is about to run
  t_trace_id,      \* thread -> its local variable trace_id
  t_ret,           \* thread -> what its generate_trace_id call returned
  t_path,          \* thread -> the branch its call returned from
  m_pc,            \* echo client: the statement main / do_echo is about to run
  m_call,          \* echo client: which do_echo call of main is running (0: none yet)
  m_id_generator,  \* echo client: main's id_generator
  m_tracer,        \* echo client: main's tracer
  d_trace_uuid,    \* do_echo's local trace_uuid
  d_trace_id,      \* do_echo's local trace_id (the hex string)
  d_response,      \* do_echo's local response
  output,          \* the lines printed so far
  spans,           \* the spans started so far, with their events
  current_span,    \* the span current in the context
  records,         \* the log records emitted so far
  echo_calls,      \* the stub.Echo invocations so far and how each ended
  channel,         \* the gRPC channel of main
  x_n,             \* streaming exchange: the number of messages N to emit
  x_abandoned,     \* streaming exchange: ExchangeState, the consumer has closed
  x_closed_at,     \* history: the liveness checks made before the consumer closed
  x_checks,        \* history: the liveness checks the producer made
  p_pc,            \* producer: the step it is about to take
  p_i,             \* producer: the index of the message it is working on
  emitted,         \* the messages the producer emitted, in order
  in_flight,       \* the messages emitted and not yet delivered
  received,        \* the messages the consumer observed, in order
  annotations      \* the events the producer attached to its span

genVars == <<next_trace_id, last>>
telVars == <<identities, setups, loggers, tracer_provider, logger_provider,
             textmap, instrumented>>
threadVars == <<t_pc, t_trace_id, t_ret, t_path>>
echoVars == <<m_pc, m_call, m_id_generator, m_tracer, d_trace_uuid, d_trace_id,
              d_response,
              output, spans, current_span, records, echo_calls, channel>>
streamVars == <<x_n, x_abandoned, x_closed_at, x_checks, p_pc, p_i, emitted, in_flight,
                received, annotations>>
vars == <<next_trace_id, last, log, identities, setups, loggers, tracer_provider,
          logger_provider, textmap, instrumented, t_pc, t_trace_id, t_ret, t_path,
          m_pc, m_call, m_id_generator, m_tracer, d_trace_uuid, d_trace_id,
          d_response,
          output, spans, current_span, records, echo_calls, channel,
          x_n, x_abandoned, x_closed_at, x_checks, p_pc, p_i, emitted, in_flight,
          received, annotations>>

NoCall == [op |-> "none", gen |-> 0, arg |-> None, ret |-> None, path |-> "none"]

\* ------------------------------------------------------------------------
\* SettableIdGenerator
\* ------------------------------------------------------------------------
\* __init__: a fresh override slot
NewGenerator == None

\* a set_next_trace_id that queues the identifier behind a pending one
SetNextTraceIdQueued(slot, trace_uuid) == Append(slot, trace_uuid.int)

\* set_next_trace_id: the new value of _next_trace_id
SetNextTraceId(slot, trace_uuid) == Some(trace_uuid.int)

\* a generate_trace_id that returns the override without clearing it
GenerateTraceIdKept(slot, rnd) ==
  IF slot # None
    THEN [ret |-> slot[1], slot |-> slot, path |-> "override"]
    ELSE [ret |-> rnd, slot |-> slot, path |-> "random"]

\* a generate_trace_id that never looks at the override
GenerateTraceIdRandom(slot, rnd) == [ret |-> rnd, slot |-> slot, path |-> "random"]

\* generate_trace_id: returned value, new slot, and the branch taken;
\* rnd is the outcome of random.getrandbits(128)
GenerateTraceId(slot, rnd) ==
  IF slot # None
    THEN [ret |-> slot[1], slot |-> None, path |-> "override"]
    ELSE [ret |-> rnd, slot |-> slot, path |-> "random"]

\* a generate_span_id that takes the override like generate_trace_id does
GenerateSpanIdOverride(slot, rnd) ==
  IF slot # None THEN [ret |-> slot[1], slot |-> None] ELSE [ret |-> rnd, slot |-> slot]

\* generate_span_id: returned value and (untouched) slot;
\* rnd is the outcome of random.getrandbits(64)
GenerateSpanId(slot, rnd) == [ret |-> rnd, slot |-> slot]

Generators == DOMAIN next_trace_id

set_next_trace_id(g, trace_uuid) ==
  /\ g \in Generators
  /\ next_trace_id' = [next_trace_id EXCEPT ![g] = SetNextTraceId(@, trace_uuid)]
  /\ last' = [op |-> "set_next_trace_id", gen |-> g, arg |-> Some(trace_uuid.int),
              ret |-> None, path |-> "none"]

generate_trace_id(g, rnd) ==
  /\ g \in Generators
  /\ LET r == GenerateTraceId(next_trace_id[g], rnd) IN
       /\ next_trace_id' = [next_trace_id EXCEPT ![g] = r.slot]
       /\ last' = [op |-> "generate_trace_id", gen |-> g, arg |-> None,
                   ret |-> Some(r.ret), path |-> r.path]

generate_span_id(g, rnd) ==
  /\ g \in Generators
  /\ LET r == GenerateSpanId(next_trace_id[g], rnd) IN
       /\ next_trace_id' = [next_trace_id EXCEPT ![g] = r.slot]
       /\ last' = [op |-> "generate_span_id", gen |-> g, arg |-> None,
                   ret |-> Some(r.ret), path |-> "random"]

\* ------------------------------------------------------------------------
\* telemetry.py: process-wide state and the two setup paths
\* ------------------------------------------------------------------------
\* service names passed by callers; "" and "root" are the names under which
\* logging.getLogger hands out the root logger
Names == {"", "root", "echo-client", "echo-service"}

\* logging.getLogger(name): the registry key of the logger it returns
GetLogger(name) == IF name = "" \/ name = "root" THEN "root" ELSE name

LoggerKeys == {GetLogger(n) : n \in Names}

\* a logger nobody configured: the root logger starts at WARNING, others NOTSET
FreshLoggers ==
  [k \in LoggerKeys |->
     [level |-> IF k = "root" THEN "WARNING" ELSE "NOTSET", handlers |-> <<>>]]

\* LoggingHandler(level=logging.INFO, logger_provider=LoggerProvider(resource))
LoggingHandler(service_name) == [level |-> "INFO", service |-> service_name]

\* TracerProvider(resource=..., id_generator=...)
TracerProvider(service_name, g) == [service |-> service_name, id_generator |-> g]

\* logger.setLevel(logging.INFO); logger.addHandler(handler)
Configure(lg, handler) == [level |-> "INFO", handlers |-> Append(lg.handlers, handler)]

\* trace.set_tracer_provider / set_logger_provider: honoured once per process
SetOnce(current, provider) == IF current = None THEN Some(provider) ELSE current

\* one module-level generator handed to every provider
AllocShared(slots) == 1

\* id_generator = SettableIdGenerator(): the instance the new provider gets
AllocGenerator(slots) == Len(slots) + 1

\* the logger create_service_telemetry configures for the service
ServiceLogger(service_name) == GetLogger(service_name)

create_service_telemetry(service_name) ==
  LET g == AllocGenerator(next_trace_id)
      provider == TracerProvider(service_name, g)
      key == ServiceLogger(service_name)
  IN /\ next_trace_id' = Append(next_trace_id, NewGenerator)
     /\ loggers' = [loggers EXCEPT ![key] = Configure(@, LoggingHandler(service_name))]
     /\ identities' = Append(identities,
                             [name |-> service_name, tracer |-> provider,
                              logger |-> key, id_generator |-> g])
     /\ UNCHANGED <<last, setups, tracer_provider, logger_provider, textmap,
                    instrumented, threadVars, echoVars, streamVars>>

setup_global_telemetry ==
  /\ textmap' = "tracecontext"
  /\ instrumented' = instrumented \cup {"client", "server"}
  /\ UNCHANGED <<genVars, identities, setups, loggers, tracer_provider,
                 logger_provider, threadVars, echoVars, streamVars>>

setup_telemetry(service_name) ==
  LET g == AllocGenerator(next_trace_id)
      provider == TracerProvider(service_name, g)
  IN /\ next_trace_id' = Append(next_trace_id, NewGenerator)
     /\ tracer_provider' = SetOnce(tracer_provider, provider)
     /\ textmap' = "tracecontext"
     /\ instrumented' = instrumented \cup {"client", "server"}
     /\ logger_provider' = SetOnce(logger_provider, [service |-> service_name])
     /\ loggers' = [loggers EXCEPT !["root"] = Configure(@, LoggingHandler(service_name))]
     /\ setups' = Append(setups, g)
     /\ UNCHANGED <<last, identities, threadVars, echoVars, streamVars>>

\* no thread is inside generate_trace_id
Threads == {"A", "B"}

InitThreads ==
  /\ t_pc = [t \in Threads |-> "idle"]
  /\ t_trace_id = [t \in Threads |-> None]
  /\ t_ret = [t \in Threads |-> None]
  /\ t_path = [t \in Threads |-> "none"]

\* the echo client before main runs
InitClient ==
  /\ m_pc = "main"
  /\ m_call = 0
  /\ m_id_generator = None
  /\ m_tracer = None
  /\ d_trace_uuid = None
  /\ d_trace_id = None
  /\ d_response = None
  /\ output = <<>>
  /\ spans = <<>>
  /\ current_span = None
  /\ records = <<>>
  /\ echo_calls = <<>>
  /\ channel = "none"

\* no streaming exchange in progress
InitNoStream ==
  /\ x_n = 0
  /\ x_abandoned = FALSE
  /\ x_closed_at = None
  /\ x_checks = 0
  /\ p_pc = "idle"
  /\ p_i = 0
  /\ emitted = <<>>
  /\ in_flight = <<>>
  /\ received = <<>>
  /\ annotations = <<>>

\* the process before any telemetry call
InitTelemetry ==
  /\ identities = <<>>
  /\ setups = <<>>
  /\ loggers = FreshLoggers
  /\ tracer_provider = None
  /\ logger_provider = None
  /\ textmap = "default"
  /\ instrumented = {}

\* ------------------------------------------------------------------------
\* Spec: one SettableIdGenerator driven by a sequential caller
\* ------------------------------------------------------------------------
Init ==
  /\ next_trace_id = <<NewGenerator>>
  /\ last = NoCall
  /\ log = <<>>
  /\ InitTelemetry
  /\ InitThreads
  /\ InitClient
  /\ InitNoStream

\* the slot as it stands after the call, recorded with the call
Recorded == /\ Len(log) < MaxCalls
            /\ log' = Append(log, [call |-> last', slot |-> next_trace_id'[last'.gen]])
            /\ UNCHANGED <<telVars, threadVars, echoVars, streamVars>>

CallSet == \E g \in Generators, u \in UUIDs : set_next_trace_id(g, u) /\ Recorded
CallGenerateTrace == \E g \in Generators, rnd \in TraceInts : generate_trace_id(g, rnd) /\ Recorded
CallGenerateSpan == \E g \in Generators, rnd \in SpanInts : generate_span_id(g, rnd) /\ Recorded

Next == CallSet \/ CallGenerateTrace \/ CallGenerateSpan

Spec == Init /\ [][Next]_vars

\* ------------------------------------------------------------------------
\* SpecTelemetry: a process calling the setup functions of telemetry.py
\* ------------------------------------------------------------------------
InitProcess ==
  /\ next_trace_id = <<>>
  /\ last = NoCall
  /\ log = <<>>
  /\ InitTelemetry
  /\ InitThreads
  /\ InitClient
  /\ InitNoStream

CreateServiceTelemetry ==
  /\ Len(identities) < MaxIdentities
  /\ \E n \in Names : create_service_telemetry(n)
  /\ UNCHANGED <<log, streamVars>>

SetupGlobalTelemetry == setup_global_telemetry /\ UNCHANGED <<log, streamVars>>

SetupTelemetry ==
  /\ Len(setups) < MaxSetups
  /\ \E n \in Names : setup_telemetry(n)
  /\ UNCHANGED <<log, streamVars>>

NextTelemetry == CreateServiceTelemetry \/ SetupGlobalTelemetry \/ SetupTelemetry

SpecTelemetry == InitProcess /\ [][NextTelemetry]_vars

\* ------------------------------------------------------------------------
\* SpecIsolation: service identities and the generator calls made through them
\* ------------------------------------------------------------------------
IdentitySet ==
  \E i \in DOMAIN identities, u \in UUIDs :
    /\ set_next_trace_id(identities[i].id_generator, u)
    /\ UNCHANGED <<log, telVars, threadVars, echoVars, streamVars>>

IdentityGenerateTrace ==
  \E i \in DOMAIN identities, rnd \in TraceInts :
    /\ generate_trace_id(identities[i].id_generator, rnd)
    /\ UNCHANGED <<log, telVars, threadVars, echoVars, streamVars>>

IdentityGenerateSpan ==
  \E i \in DOMAIN identities, rnd \in SpanInts :
    /\ generate_span_id(identities[i].id_generator, rnd)
    /\ UNCHANGED <<log, telVars, threadVars, echoVars, streamVars>>

NextIsolation ==
  CreateServiceTelemetry \/ IdentitySet \/ IdentityGenerateTrace \/ IdentityGenerateSpan

SpecIsolation == InitProcess /\ [][NextIsolation]_vars

\* ------------------------------------------------------------------------
\* SpecThreads: two threads inside generate_trace_id of one shared generator
\* ------------------------------------------------------------------------
\* the threads share the one generator of the process, instance 1
\* the state after set_next_trace_id(u) on a fresh generator
InitArmed ==
  /\ \E u \in UUIDs :
       /\ next_trace_id = <<SetNextTraceId(NewGenerator, u)>>
       /\ last = [op |-> "set_next_trace_id", gen |-> 1, arg |-> Some(u.int),
                  ret |-> None, path |-> "none"]
  /\ log = <<>>
  /\ InitTelemetry
  /\ t_pc = [t \in Threads |-> "test"]
  /\ t_trace_id = [t \in Threads |-> None]
  /\ t_ret = [t \in Threads |-> None]
  /\ t_path = [t \in Threads |-> "none"]
  /\ InitClient
  /\ InitNoStream

\* if self._next_trace_id is not None:
Test(t) ==
  /\ t_pc[t] = "test"
  /\ t_pc' = [t_pc EXCEPT ![t] = IF next_trace_id[1] # None THEN "copy" ELSE "random"]
  /\ UNCHANGED <<next_trace_id, last, log, telVars, t_trace_id, t_ret, t_path, echoVars,
                 streamVars>>

\* trace_id = self._next_trace_id
Copy(t) ==
  /\ t_pc[t] = "copy"
  /\ t_trace_id' = [t_trace_id EXCEPT ![t] = next_trace_id[1]]
  /\ t_pc' = [t_pc EXCEPT ![t] = "clear"]
  /\ UNCHANGED <<next_trace_id, last, log, telVars, t_ret, t_path, echoVars, streamVars>>

\* self._next_trace_id = None
Clear(t) ==
  /\ t_pc[t] = "clear"
  /\ next_trace_id' = [next_trace_id EXCEPT ![1] = None]
  /\ t_pc' = [t_pc EXCEPT ![t] = "return"]
  /\ UNCHANGED <<last, log, telVars, t_trace_id, t_ret, t_path, echoVars, streamVars>>

\* return trace_id
Return(t) ==
  /\ t_pc[t] = "return"
  /\ t_ret' = [t_ret EXCEPT ![t] = t_trace_id[t]]
  /\ t_path' = [t_path EXCEPT ![t] = "override"]
  /\ t_pc' = [t_pc EXCEPT ![t] = "done"]
  /\ UNCHANGED <<next_trace_id, last, log, telVars, t_trace_id, echoVars, streamVars>>

\* return random.getrandbits(128)
Random(t) ==
  /\ t_pc[t] = "random"
  /\ \E rnd \in TraceInts : t_ret' = [t_ret EXCEPT ![t] = Some(rnd)]
  /\ t_path' = [t_path EXCEPT ![t] = "random"]
  /\ t_pc' = [t_pc EXCEPT ![t] = "done"]
  /\ UNCHANGED <<next_trace_id, last, log, telVars, t_trace_id, echoVars, streamVars>>

NextThreads ==
  \E t \in Threads : Test(t) \/ Copy(t) \/ Clear(t) \/ Return(t) \/ Random(t)

SpecThreads == InitArmed /\ [][NextThreads]_vars

\* ------------------------------------------------------------------------
\* echo_client.py: uuid rendering, do_echo and main
\* ------------------------------------------------------------------------
HexDigits == <<"0", "1", "2", "3", "4", "5", "6", "7", "8", "9",
               "a", "b", "c", "d", "e", "f">>

\* '%x' % n: the lowercase hexadecimal digits of n, most significant first
RECURSIVE ToHex(_)
ToHex(n) ==
  IF n < 16 THEN <<HexDigits[n + 1]>>
  ELSE ToHex(n \div 16) \o <<HexDigits[(n % 16) + 1]>>

\* the 0-flag of '%032x': pad on the left with zeros up to the width
RECURSIVE ZeroPad(_, _)
ZeroPad(digits, width) ==
  IF Len(digits) >= width THEN digits ELSE ZeroPad(<<"0">> \o digits, width)

\* a rendering without the zero padding, as hex(n)[2:] would give
UuidHexUnpadded(u) == ToHex(u.int)

\* trace_uuid.hex
UuidHex(u) == ZeroPad(ToHex(u.int), HexWidth)

\* outcomes of uuid.uuid4() explored: the small integers and a few wider ones
\* (0xab, 0xbeef, 0x7fffffff)
Uuid4 == {UUID(n) : n \in TraceInts \cup {171, 48879, 2147483647}}

\* the messages of main's do_echo calls, in order
Messages == <<"Hello, World!", "Goodbye, World!">>

JaegerPrefix == "Jaeger: http://localhost:16686/trace/"
KibanaPrefix == "Kibana: http://localhost:5601/app/discover#/?_g=(filters:!(),refreshInterval:(pause:!t,value:60000),time:(from:now-15m,to:now))&_a=(columns:!(message,log.level,service.name),filters:!(),query:(language:kuery,query:'trace.id:\""
KibanaSuffix == "\"'))"

\* the three lines do_echo prints before the call; a line is a sequence of
\* literal pieces and single characters
Announce(message, hex) ==
  << <<"--- Echo: ", message, " ---">>,
     <<JaegerPrefix>> \o hex,
     <<KibanaPrefix>> \o hex \o <<KibanaSuffix>> >>

\* EchoServicer.Echo: the response carries the request's message
Echo(request) == [message |-> request.message]

\* a do_echo that calls stub.Echo again when it failed
AfterEchoRetry(outcome) == IF outcome = "error" THEN "echo" ELSE "response"

\* where do_echo continues after stub.Echo: an error is not caught
AfterEcho(outcome) == IF outcome = "error" THEN "unwind" ELSE "response"

\* the trace id a span started by the SDK gets: a fresh one from the id
\* generator when no span is current, else the current span's
SpanTraceId(cur, slot, rnd) ==
  IF cur = None THEN GenerateTraceId(slot, rnd)
  ELSE [ret |-> spans[cur[1]].trace_id, slot |-> slot, path |-> "parent"]

AddEvent(span, name, attrs) ==
  [span EXCEPT !.events = Append(@, [name |-> name, attrs |-> attrs])]

\* echo_client.setup_telemetry() and the first lines of main
ClientSetup ==
  /\ m_pc = "main"
  /\ LET g == AllocGenerator(next_trace_id)
         provider == TracerProvider("echo-client", g)
     IN /\ next_trace_id' = Append(next_trace_id, NewGenerator)
        /\ tracer_provider' = SetOnce(tracer_provider, provider)
        /\ instrumented' = instrumented \cup {"client"}
        /\ logger_provider' = SetOnce(logger_provider, [service |-> "echo-client"])
        /\ loggers' = [loggers EXCEPT !["root"] = Configure(@, LoggingHandler("echo-client"))]
        /\ m_id_generator' = Some(g)
        /\ m_tracer' = SetOnce(tracer_provider, provider)
  /\ channel' = "open"
  /\ m_call' = 1
  /\ m_pc' = "arm"
  /\ UNCHANGED <<last, log, identities, setups, textmap, threadVars, streamVars,
                 d_trace_uuid,
                 d_trace_id, d_response, output, spans, current_span, records, echo_calls>>

\* trace_uuid = uuid.uuid4(); trace_id = trace_uuid.hex;
\* id_generator.set_next_trace_id(d_trace_uuid)
DoEchoArm ==
  /\ m_pc = "arm"
  /\ \E u \in Uuid4 :
       /\ d_trace_uuid' = Some(u)
       /\ d_trace_id' = UuidHex(u)
       /\ set_next_trace_id(m_id_generator[1], u)
  /\ d_response' = None
  /\ m_pc' = "print"
  /\ UNCHANGED <<log, telVars, threadVars, streamVars, m_call, m_id_generator, m_tracer, output,
                 spans, current_span, records, echo_calls, channel>>

\* the three print calls
DoEchoPrint ==
  /\ m_pc = "print"
  /\ output' = output \o Announce(Messages[m_call], d_trace_id)
  /\ m_pc' = "start_span"
  /\ UNCHANGED <<genVars, log, telVars, threadVars, streamVars, m_call, m_id_generator, m_tracer,
                 d_trace_uuid, d_trace_id, d_response, spans, current_span, records,
                 echo_calls, channel>>

\* with tracer.start_as_current_span("echo-request") as span:
DoEchoStartSpan ==
  /\ m_pc = "start_span"
  /\ \E rnd \in TraceInts, srnd \in SpanInts :
       LET g == m_tracer[1].id_generator
           tr == SpanTraceId(current_span, next_trace_id[g], rnd)
           sp == GenerateSpanId(tr.slot, srnd)
       IN /\ next_trace_id' = [next_trace_id EXCEPT ![g] = sp.slot]
          /\ last' = [op |-> "generate_span_id", gen |-> g, arg |-> None,
                      ret |-> Some(sp.ret), path |-> "random"]
          /\ spans' = Append(spans, [name |-> "echo-request", call |-> m_call,
                                     trace_id |-> tr.ret, span_id |-> sp.ret,
                                     parent |-> current_span, events |-> <<>>,
                                     status |-> "unset", ended |-> FALSE])
          /\ current_span' = Some(Len(spans) + 1)
  /\ m_pc' = "prepare"
  /\ UNCHANGED <<log, telVars, threadVars, streamVars, m_call, m_id_generator, m_tracer,
                 d_trace_uuid, d_trace_id, d_response, output, records, echo_calls, channel>>

\* span.add_event("Preparing request", ...); logger.info("Sending echo request", ...)
DoEchoPrepare ==
  /\ m_pc = "prepare"
  /\ spans' = [spans EXCEPT ![current_span[1]] =
                 AddEvent(@, "Preparing request", <<Messages[m_call]>>)]
  /\ records' = Append(records, [msg |-> "Sending echo request", call |-> m_call])
  /\ m_pc' = "echo"
  /\ UNCHANGED <<genVars, log, telVars, threadVars, streamVars, m_call, m_id_generator, m_tracer,
                 d_trace_uuid, d_trace_id, d_response, output, current_span, echo_calls,
                 channel>>

\* response = stub.Echo(echo_pb2.EchoRequest(message=message)): the
\* instrumented stub wraps the call in a client span, a child of the current
\* span; the transport either returns the servicer's response or raises
DoEchoCall ==
  /\ m_pc = "echo"
  /\ \E outcome \in {"ok", "error"}, srnd \in SpanInts :
       LET g == m_tracer[1].id_generator
           tr == SpanTraceId(current_span, next_trace_id[g], 0)
           sp == GenerateSpanId(tr.slot, srnd)
       IN /\ next_trace_id' = [next_trace_id EXCEPT ![g] = sp.slot]
          /\ last' = [op |-> "generate_span_id", gen |-> g, arg |-> None,
                      ret |-> Some(sp.ret), path |-> "random"]
          /\ spans' = Append(spans, [name |-> "/echo.Echo/Echo", call |-> m_call,
                                     trace_id |-> tr.ret, span_id |-> sp.ret,
                                     parent |-> current_span, events |-> <<>>,
                                     status |-> IF outcome = "error" THEN "error" ELSE "unset",
                                     ended |-> TRUE])
          /\ echo_calls' = Append(echo_calls, [call |-> m_call, outcome |-> outcome])
          /\ d_response' = IF outcome = "ok"
                           THEN Some(Echo([message |-> Messages[m_call]]))
                           ELSE None
          /\ m_pc' = AfterEcho(outcome)
  /\ UNCHANGED <<log, telVars, threadVars, streamVars, m_call, m_id_generator, m_tracer,
                 d_trace_uuid, d_trace_id, output, current_span, records, channel>>

\* span.add_event("Response received", ...); logger.info(...); print(...)
DoEchoResponse ==
  /\ m_pc = "response"
  /\ spans' = [spans EXCEPT ![current_span[1]] =
                 AddEvent(@, "Response received",
                          <<d_response[1].message, Len(d_response[1].message)>>)]
  /\ records' = Append(records, [msg |-> "Received echo response", call |-> m_call])
  /\ output' = Append(output, <<"Response: ", d_response[1].message>>)
  /\ m_pc' = "exit"
  /\ UNCHANGED <<genVars, log, telVars, threadVars, streamVars, m_call, m_id_generator, m_tracer,
                 d_trace_uuid, d_trace_id, d_response, current_span, echo_calls, channel>>

\* the with block ends normally: the span ends and is no longer current,
\* do_echo returns
DoEchoExit ==
  /\ m_pc = "exit"
  /\ spans' = [spans EXCEPT ![current_span[1]].ended = TRUE]
  /\ current_span' = spans[current_span[1]].parent
  /\ m_pc' = "returned"
  /\ UNCHANGED <<genVars, log, telVars, threadVars, streamVars, m_call, m_id_generator, m_tracer,
                 d_trace_uuid, d_trace_id, d_response, output, records, echo_calls, channel>>

\* the with block is left by the exception of stub.Echo: the span records it,
\* ends, and the exception goes on through do_echo and main, closing the
\* channel on its way
DoEchoUnwind ==
  /\ m_pc = "unwind"
  /\ spans' = [spans EXCEPT ![current_span[1]] =
                 [AddEvent(@, "exception", <<>>) EXCEPT !.status = "error", !.ended = TRUE]]
  /\ current_span' = spans[current_span[1]].parent
  /\ channel' = "closed"
  /\ m_pc' = "raised"
  /\ UNCHANGED <<genVars, log, telVars, threadVars, streamVars, m_call, m_id_generator, m_tracer,
                 d_trace_uuid, d_trace_id, d_response, output, records, echo_calls>>

\* main after a do_echo returned: the next do_echo, or the end of the with
\* block that closes the channel
MainContinue ==
  /\ m_pc = "returned"
  /\ IF m_call < Len(Messages)
       THEN /\ m_call' = m_call + 1
            /\ m_pc' = "arm"
            /\ UNCHANGED channel
       ELSE /\ m_pc' = "done"
            /\ channel' = "closed"
            /\ UNCHANGED m_call
  /\ UNCHANGED <<genVars, log, telVars, threadVars, streamVars, m_id_generator, m_tracer,
                 d_trace_uuid, d_trace_id, d_response, output, spans, current_span, records,
                 echo_calls>>

InitEcho ==
  /\ next_trace_id = <<>>
  /\ last = NoCall
  /\ log = <<>>
  /\ InitTelemetry
  /\ InitThreads
  /\ InitClient
  /\ InitNoStream

NextEcho ==
  \/ ClientSetup
  \/ DoEchoArm
  \/ DoEchoPrint
  \/ DoEchoStartSpan
  \/ DoEchoPrepare
  \/ DoEchoCall
  \/ DoEchoResponse
  \/ DoEchoExit
  \/ DoEchoUnwind
  \/ MainContinue

SpecEcho == InitEcho /\ [][NextEcho]_vars

\* ------------------------------------------------------------------------
\* SpecStream: the streaming exchange protocol (producer and consumer)
\* ------------------------------------------------------------------------
\* a producer that never notices the consumer is gone
IsLiveAlways(abandoned) == TRUE

\* the exchange liveness check of the producer: the consumer is still listening
IsLive(abandoned) == ~abandoned

\* a producer about to handle a call that emits n messages
InitStream ==
  /\ next_trace_id = <<>>
  /\ last = NoCall
  /\ log = <<>>
  /\ InitTelemetry
  /\ InitThreads
  /\ InitClient
  /\ x_n \in 1..MaxMessages
  /\ x_abandoned = FALSE
  /\ x_closed_at = None
  /\ x_checks = 0
  /\ p_pc = "check"
  /\ p_i = 1
  /\ emitted = <<>>
  /\ in_flight = <<>>
  /\ received = <<>>
  /\ annotations = <<>>

notStream == <<next_trace_id, last, log, telVars, threadVars, echoVars>>

\* before producing message i: check liveness; if the consumer is gone, record
\* the cancellation once and stop
ProducerCheck ==
  /\ p_pc = "check"
  /\ x_checks' = x_checks + 1
  /\ IF IsLive(x_abandoned)
       THEN /\ p_pc' = "produce"
            /\ UNCHANGED annotations
       ELSE /\ p_pc' = "stopped"
            /\ annotations' = Append(annotations, "cancelled")
  /\ UNCHANGED <<notStream, x_n, x_abandoned, x_closed_at, p_i, emitted, in_flight,
                 received>>

\* produce message i: annotate and emit it
ProducerEmit ==
  /\ p_pc = "produce"
  /\ annotations' = Append(annotations, "emit")
  /\ emitted' = Append(emitted, p_i)
  /\ in_flight' = Append(in_flight, p_i)
  /\ p_pc' = "pace"
  /\ UNCHANGED <<notStream, x_n, x_abandoned, x_closed_at, x_checks, p_i, received>>

\* the inter-message delay ends (elapsed or interrupted); after message N the
\* producer is exhausted and the exchange closes
ProducerPace ==
  /\ p_pc = "pace"
  /\ IF p_i < x_n
       THEN /\ p_i' = p_i + 1
            /\ p_pc' = "check"
       ELSE /\ p_pc' = "exhausted"
            /\ UNCHANGED p_i
  /\ UNCHANGED <<notStream, x_n, x_abandoned, x_closed_at, x_checks, emitted, in_flight,
                 received, annotations>>

\* the transport delivers the oldest message in flight; nothing is delivered
\* to a consumer that closed the exchange
ConsumerReceive ==
  /\ ~x_abandoned
  /\ in_flight # <<>>
  /\ received' = Append(received, Head(in_flight))
  /\ in_flight' = Tail(in_flight)
  /\ UNCHANGED <<notStream, x_n, x_abandoned, x_closed_at, x_checks, p_pc, p_i, emitted,
                 annotations>>

\* having received the first message it needs, the consumer closes the
\* exchange early
ConsumerClose ==
  /\ ~x_abandoned
  /\ Len(received) >= 1
  /\ x_abandoned' = TRUE
  /\ x_closed_at' = Some(x_checks)
  /\ UNCHANGED <<notStream, x_n, x_checks, p_pc, p_i, emitted, in_flight, received,
                 annotations>>

NextStream ==
  ProducerCheck \/ ProducerEmit \/ ProducerPace \/ ConsumerReceive \/ ConsumerClose

SpecStream == InitStream /\ [][NextStream]_vars

\* ------------------------------------------------------------------------
\* Properties of the sequential run (Spec)
\* ------------------------------------------------------------------------
IsSet(i) == log[i].call.op = "set_next_trace_id"
IsGenTrace(i) == log[i].call.op = "generate_trace_id"
IsGenSpan(i) == log[i].call.op = "generate_span_id"

\* the slot of call i's generator as it stood before call i
RECURSIVE SlotBefore(_, _)
SlotBefore(i, k) ==
  IF k = 0 THEN None
  ELSE IF log[k].call.gen = log[i].call.gen THEN log[k].slot
  ELSE SlotBefore(i, k - 1)

NoSetBetween(i, j) ==
  \A k \in (i + 1)..(j - 1) : log[k].call.gen = log[i].call.gen => ~IsSet(k)

\* C1: set_next_trace_id(id) followed immediately by generate_trace_id()
\* returns exactly id and leaves the override slot empty; a later
\* generate_trace_id() on the same generator with no set_next_trace_id in
\* between takes the random path, so an armed id is handed out at most once.
C1_OneShot ==
  /\ \A i \in 1..(Len(log) - 1) :
       (IsSet(i) /\ IsGenTrace(i + 1) /\ log[i].call.gen = log[i + 1].call.gen)
         => /\ log[i + 1].call.ret = log[i].call.arg
            /\ log[i + 1].call.path = "override"
            /\ log[i + 1].slot = None
  /\ \A i \in 1..Len(log) : \A j \in (i + 1)..Len(log) :
       (IsGenTrace(i) /\ IsGenTrace(j) /\ log[i].call.gen = log[j].call.gen
          /\ NoSetBetween(i, j))
         => log[j].call.path = "random"

C1_Witness ==
  /\ Len(log) >= 3
  /\ IsSet(1) /\ IsGenTrace(2) /\ IsGenTrace(3)
  /\ log[2].call.ret = log[1].call.arg
  /\ log[3].call.path = "random"

\* C7: set_next_trace_id always stores its argument, and it is last-write-wins
\* on a single slot: a generate_trace_id that takes the override path returns
\* the argument of the most recent set_next_trace_id on that generator (an
\* overwritten identifier is never returned), and the generator never holds
\* more than one pending identifier.
C7_LastWriteWins ==
  /\ \A g \in Generators : Len(next_trace_id[g]) <= 1
  /\ \A i \in 1..Len(log) :
       /\ Len(log[i].slot) <= 1
       /\ IsSet(i) => log[i].slot = log[i].call.arg
       /\ (IsGenTrace(i) /\ log[i].call.path = "override")
            => \E k \in 1..(i - 1) :
                 /\ IsSet(k) /\ log[k].call.gen = log[i].call.gen
                 /\ log[k].call.arg = log[i].call.ret
                 /\ \A m \in (k + 1)..(i - 1) :
                      log[m].call.gen = log[i].call.gen => IsGenSpan(m)

C7_Witness ==
  /\ Len(log) >= 4
  /\ IsSet(1) /\ IsSet(2) /\ IsGenTrace(3) /\ IsGenTrace(4)
  /\ log[1].call.arg # log[2].call.arg
  /\ log[3].call.ret = log[2].call.arg
  /\ log[4].call.path = "random"

\* C10: generate_span_id has no override path: it leaves the pending override
\* exactly as it was, so the slot changes only in set_next_trace_id or
\* generate_trace_id.
C10_SpanIdNoOverride ==
  \A i \in 1..Len(log) :
    /\ IsGenSpan(i) => log[i].slot = SlotBefore(i, i - 1)
    /\ log[i].slot # SlotBefore(i, i - 1) => (IsSet(i) \/ IsGenTrace(i))

C10_Witness ==
  /\ Len(log) >= 4
  /\ IsSet(1) /\ IsGenSpan(2) /\ IsGenSpan(3) /\ IsGenTrace(4)
  /\ log[3].slot = log[1].call.arg
  /\ log[4].call.ret = log[1].call.arg

\* ------------------------------------------------------------------------
\* Properties of service identities (SpecIsolation, SpecTelemetry)
\* ------------------------------------------------------------------------
DifferentNames(i, j) ==
  /\ i \in DOMAIN identities /\ j \in DOMAIN identities
  /\ identities[i].name # identities[j].name

DistinctGenerators ==
  \A i, j \in DOMAIN identities :
    DifferentNames(i, j) => identities[i].id_generator # identities[j].id_generator

\* a generator call made through identity i leaves the override slot of every
\* differently named identity j as it was, and an override-path
\* generate_trace_id returns what was pending in its own generator's slot
IsolatedStep ==
  /\ \A i, j \in DOMAIN identities :
       (DifferentNames(i, j) /\ last' # last /\ last'.gen = identities[i].id_generator)
         => next_trace_id'[identities[j].id_generator]
              = next_trace_id[identities[j].id_generator]
  /\ (last' # last /\ last'.op = "generate_trace_id" /\ last'.path = "override")
       => last'.ret = next_trace_id[last'.gen]

\* C3: two identities created with different names own distinct
\* SettableIdGenerator instances; a set_next_trace_id / generate_trace_id /
\* generate_span_id made through one never changes the other's override slot,
\* and an identity's generate_trace_id hands out only what was armed in its
\* own slot.
C3_Isolation == [](DistinctGenerators) /\ [][IsolatedStep]_vars

C3_Witness ==
  /\ Len(identities) = 2
  /\ DifferentNames(1, 2)
  /\ next_trace_id[identities[1].id_generator] # None
  /\ last.op = "generate_trace_id"
  /\ last.gen = identities[2].id_generator
  /\ last.path = "random"

\* C8: a create_service_telemetry call leaves the global tracer provider, the
\* global logger provider and the root logger's handlers and level unchanged.
C8_CreateLeavesGlobals ==
  [][Len(identities') > Len(identities)
       => /\ tracer_provider' = tracer_provider
          /\ logger_provider' = logger_provider
          /\ loggers'["root"] = loggers["root"]]_vars

\* ------------------------------------------------------------------------
\* Properties of concurrent generate_trace_id calls (SpecThreads)
\* ------------------------------------------------------------------------
\* the threads whose call returned the armed identifier from the override path
Receivers == {t \in Threads : t_path[t] = "override" /\ t_ret[t] = last.arg}

\* C2: with one override armed and two concurrent generate_trace_id calls,
\* once both calls have returned the armed identifier went to exactly one
\* caller, under every interleaving.
C2_ExactlyOneReceiver ==
  (\A t \in Threads : t_pc[t] = "done") => Cardinality(Receivers) = 1

\* ------------------------------------------------------------------------
\* Properties of the echo client (SpecEcho)
\* ------------------------------------------------------------------------
IsLowerHex(c) == \E i \in 1..Len(HexDigits) : HexDigits[i] = c
DigitValue(c) == (CHOOSE i \in 1..Len(HexDigits) : HexDigits[i] = c) - 1

\* int(h, 16) for a string of lowercase hexadecimal digits
RECURSIVE ParseHex(_)
ParseHex(h) ==
  IF h = <<>> THEN 0
  ELSE ParseHex(SubSeq(h, 1, Len(h) - 1)) * 16 + DigitValue(h[Len(h)])

IsJaegerLine(l) == l[1] = JaegerPrefix
IsKibanaLine(l) == l[1] = KibanaPrefix
IsRootSpan(sp) == sp.name = "echo-request"

\* the k-th Jaeger / Kibana line printed is the one of the k-th do_echo call
JaegerLines == SelectSeq(output, IsJaegerLine)
KibanaLines == SelectSeq(output, IsKibanaLine)
RootSpans == SelectSeq(spans, IsRootSpan)

\* the identifier do_echo number k announced, as printed in its Jaeger link
Announced(k) == Tail(JaegerLines[k])

\* C4: the root span "echo-request" of each do_echo call carries the trace
\* identifier announced by that same call; a call starts one root span, spans
\* nested in it share its trace identifier, and once the span is started no
\* override stays armed (in particular not after the call returned).
C4_SpanCarriesAnnouncedId ==
  /\ \A i \in DOMAIN spans :
       IF IsRootSpan(spans[i])
         THEN /\ spans[i].parent = None
              /\ spans[i].call \in 1..Len(JaegerLines)
              /\ spans[i].trace_id = ParseHex(Announced(spans[i].call))
              /\ \A j \in DOMAIN spans :
                   (IsRootSpan(spans[j]) /\ spans[j].call = spans[i].call) => j = i
         ELSE /\ spans[i].parent # None
              /\ spans[i].trace_id = spans[spans[i].parent[1]].trace_id
  /\ m_pc \in {"prepare", "echo", "response", "exit", "unwind", "returned", "raised",
               "done", "arm"}
       => /\ next_trace_id[m_id_generator[1]] = None
          /\ m_pc # "arm" => Len(RootSpans) = m_call

C4_Witness ==
  /\ m_pc = "done"
  /\ Len(RootSpans) = 2
  /\ RootSpans[1].trace_id = ParseHex(Announced(1))
  /\ RootSpans[2].trace_id = ParseHex(Announced(2))
  /\ RootSpans[1].trace_id # RootSpans[2].trace_id

\* C6: the Jaeger and Kibana lines of a do_echo call contain the same string
\* of exactly 32 lowercase hexadecimal digits, and parsing that string gives
\* the integer set_next_trace_id stored in the override slot.
C6_AnnouncerRoundTrip ==
  /\ Len(JaegerLines) = Len(KibanaLines)
  /\ \A k \in 1..Len(JaegerLines) :
       /\ Len(Announced(k)) = HexWidth
       /\ \A n \in 1..Len(Announced(k)) : IsLowerHex(Announced(k)[n])
       /\ JaegerLines[k] = <<JaegerPrefix>> \o Announced(k)
       /\ KibanaLines[k] = <<KibanaPrefix>> \o Announced(k) \o <<KibanaSuffix>>
  /\ m_pc = "start_span"
       => /\ Len(JaegerLines) = m_call
          /\ next_trace_id[m_id_generator[1]] = Some(ParseHex(Announced(m_call)))

C6_Witness ==
  /\ m_pc = "start_span"
  /\ m_call = 2
  /\ next_trace_id[m_id_generator[1]] = Some(48879)
  /\ SubSeq(Announced(2), HexWidth - 3, HexWidth) = <<"b", "e", "e", "f">>
  /\ Announced(2)[1] = "0"

EchoCallsOf(k) == SelectSeq(echo_calls, LAMBDA e : e.call = k)
HasEvent(sp, name) == \E n \in DOMAIN sp.events : sp.events[n].name = name

\* C9: when stub.Echo fails in a do_echo call, that call invoked Echo exactly
\* once, its span gets no "Response received" event, the failure leaves
\* do_echo and main (the span ended on the way), and no later do_echo starts.
C9_EchoFailurePropagates ==
  /\ \A k \in 1..Len(Messages) : Len(EchoCallsOf(k)) <= 1
  /\ \A n \in DOMAIN echo_calls :
       echo_calls[n].outcome = "error"
         => LET k == echo_calls[n].call IN
            /\ Len(EchoCallsOf(k)) = 1
            /\ m_call = k
            /\ m_pc \in {"unwind", "raised"}
            /\ Len(RootSpans) = k
            /\ ~HasEvent(RootSpans[k], "Response received")
            /\ Len(JaegerLines) = k
            /\ \A i \in DOMAIN spans : spans[i].call <= k
            /\ m_pc = "raised" => (RootSpans[k].ended /\ current_span = None)

C9_Witness ==
  /\ m_pc = "raised"
  /\ m_call = 1
  /\ Len(echo_calls) = 1
  /\ echo_calls[1].outcome = "error"
  /\ RootSpans[1].ended

\* ------------------------------------------------------------------------
\* Properties of the streaming exchange (SpecStream)
\* ------------------------------------------------------------------------
Cancelled == SelectSeq(annotations, LAMBDA a : a = "cancelled")

====
